---- MODULE Spec2Model ----
(***************************************************************************)
(* pvc-webhook: the admission handler that turns emptyDir volumes into     *)
(* PVC-backed volumes (internal/webhook/handler.go) and the reconcilers    *)
(* that provision the PVCs from pod annotations (controllers/...).         *)
(*                                                                         *)
(* A Go string is modelled as a sequence of one-character strings, so that *)
(* escaping, sanitising and truncation act on characters as the code does. *)
(***************************************************************************)
EXTENDS Integers, Sequences, FiniteSets, TLC

\* ------------------------------------------------------------ strings

Lowers == <<"a","b","c","d","e","f","g","h","i","j","k","l","m","n","o","p","q","r","s","t","u","v","w","x","y","z">>
Uppers == <<"A","B","C","D","E","F","G","H","I","J","K","L","M","N","O","P","Q","R","S","T","U","V","W","X","Y","Z">>
Digits == <<"0","1","2","3","4","5","6","7","8","9">>

Range(f) == {f[i] : i \in DOMAIN f}

\* strings.ToLower, one character
ToLowerChar(c) ==
  IF c \in Range(Uppers) THEN Lowers[CHOOSE i \in DOMAIN Uppers : Uppers[i] = c] ELSE c

ToLower(s) == [i \in DOMAIN s |-> ToLowerChar(s[i])]

\* strings.ReplaceAll(s, old, new) for a non-empty old: leftmost, non-overlapping;
\* the text up to the first match is kept, the match replaced, the rest treated
\* the same way
RECURSIVE ReplaceAll(_, _, _)
ReplaceAll(s, old, new) ==
  LET at == {i \in 1..(Len(s) - Len(old) + 1) : SubSeq(s, i, i + Len(old) - 1) = old}
  IN  IF at = {} THEN s
      ELSE LET i == CHOOSE x \in at : \A y \in at : x <= y
           IN  SubSeq(s, 1, i - 1) \o new
                 \o ReplaceAll(SubSeq(s, i + Len(old), Len(s)), old, new)

\* strings.Contains
Contains(s, sub) ==
  \E i \in 1..(Len(s) - Len(sub) + 1) : SubSeq(s, i, i + Len(sub) - 1) = sub

\* strings.Trim(s, cutset): drop the leading and the trailing characters of cutset
Trim(s, cutset) ==
  LET keep == {i \in DOMAIN s : s[i] \notin cutset}
  IN  IF keep = {} THEN << >>
      ELSE SubSeq(s, CHOOSE i \in keep : \A j \in keep : i <= j,
                     CHOOSE i \in keep : \A j \in keep : j <= i)

WhiteSpace == {" ", "\t", "\n", "\r"}

\* strings.TrimSpace
TrimSpace(s) == Trim(s, WhiteSpace)

\* strings.TrimPrefix
TrimPrefix(s, prefix) ==
  IF Len(s) >= Len(prefix) /\ SubSeq(s, 1, Len(prefix)) = prefix
  THEN SubSeq(s, Len(prefix) + 1, Len(s))
  ELSE s

\* fmt.Sprintf("%d", n) for n >= 0
RECURSIVE Itoa(_)
Itoa(n) ==
  IF n < 10 THEN <<Digits[n + 1]>>
  ELSE Itoa(n \div 10) \o <<Digits[(n % 10) + 1]>>

\* ------------------------------------------------------------ handler.go: helpers

\* maxName = 63
maxName == 63

\* "pvc-webhook/converted"
convertedAnno == <<"p","v","c","-","w","e","b","h","o","o","k","/","c","o","n","v","e","r","t","e","d">>

StrTrue == <<"t","r","u","e">>

\* the characters nameRe = [^a-z0-9\-] does not match
NameChars == Range(Lowers) \cup Range(Digits) \cup {"-"}

\* nameRe.ReplaceAllString(s, "-")
nameReReplace(s) == [i \in DOMAIN s |-> IF s[i] \in NameChars THEN s[i] ELSE "-"]

\* for strings.Contains(s, "--") { s = strings.ReplaceAll(s, "--", "-") }
RECURSIVE collapseHyphens(_)
collapseHyphens(s) ==
  IF Contains(s, <<"-","-">>) THEN collapseHyphens(ReplaceAll(s, <<"-","-">>, <<"-">>)) ELSE s

sanitize(s) ==
  LET s1 == ToLower(s)
      s2 == ReplaceAll(s1, <<"_">>, <<"-">>)
      s3 == nameReReplace(s2)
      s4 == collapseHyphens(s3)
  IN  Trim(s4, {"-"})

\* if len(claim) > maxName { claim = claim[:maxName] }
cutName(claim) == IF Len(claim) > maxName THEN SubSeq(claim, 1, maxName) ELSE claim

\* claim := sanitize(fmt.Sprintf("pvc-%s-%s-%s", ns, pod, vol)), then the cut
claimName(ns, pod, vol) ==
  cutName(sanitize(<<"p","v","c","-">> \o ns \o <<"-">> \o pod \o <<"-">> \o vol))

\* func pick, with v != "" in place of strings.TrimSpace(v) != ""
RECURSIVE pick_firstNonEmpty(_)
pick_firstNonEmpty(vals) ==
  IF vals = << >> THEN << >>
  ELSE IF Head(vals) # << >> THEN Head(vals)
  ELSE pick_firstNonEmpty(Tail(vals))

\* pick(vals ...string): the first value whose trimmed form is non-empty, else ""
RECURSIVE pick(_)
pick(vals) ==
  IF vals = << >> THEN << >>
  ELSE IF TrimSpace(Head(vals)) # << >> THEN Head(vals)
  ELSE pick(Tail(vals))

\* main.go, escapeJSONPointer with the two replacements in the other order
escapeJSONPointer_slashFirst(s) ==
  ReplaceAll(ReplaceAll(s, <<"/">>, <<"~","1">>), <<"~">>, <<"~","0">>)

\* main.go: escapeJSONPointer, "~" to "~0" and then "/" to "~1"
escapeJSONPointer(s) ==
  ReplaceAll(ReplaceAll(s, <<"~">>, <<"~","0">>), <<"/">>, <<"~","1">>)

pathEscape(p) ==
  LET p1 == ReplaceAll(p, <<"~">>, <<"~","0">>)
      p2 == ReplaceAll(p1, <<"/">>, <<"~","1">>)
  IN  <<"/">> \o TrimPrefix(p2, <<"/">>)

\* patch.go
addOp(path, v) == [op |-> "add", path |-> path, value |-> v]

replaceOp(path, v) == [op |-> "replace", path |-> path, value |-> v]

\* ------------------------------------------------------------ pods

\* map[string]string: Go tells a nil map from an empty one
EmptyKV == [k \in {} |-> << >>]

NilMap == [isNil |-> TRUE, kv |-> EmptyKV]

EmptyMap == [isNil |-> FALSE, kv |-> EmptyKV]

\* m[k] of a Go map: the zero value "" when m is nil or has no k
MapGet(m, k) == IF k \in DOMAIN m.kv THEN m.kv[k] ELSE << >>

KVPut(kv, k, v) == [x \in DOMAIN kv \cup {k} |-> IF x = k THEN v ELSE kv[x]]

\* corev1.Volume with an emptyDir source, another source, or a claim reference
EmptyDirVol(name) == [name |-> name, source |-> "emptyDir", claimName |-> << >>]

OtherVol(name) == [name |-> name, source |-> "hostPath", claimName |-> << >>]

PVCVol(name, claim) == [name |-> name, source |-> "persistentVolumeClaim", claimName |-> claim]

\* ------------------------------------------------------------ handler.go: ServeHTTP

\* getEnv(k, def)
getEnv(v, def) == IF v # << >> THEN v ELSE def

\* NewHandler: the three defaults, read once from the environment
NewHandler(env) ==
  [defaultSize   |-> getEnv(env.size, <<"1","0","G","i">>),
   defaultSC     |-> getEnv(env.sc, <<"s","t","a","n","d","a","r","d">>),
   defaultAccess |-> getEnv(env.access, <<"R","e","a","d","W","r","i","t","e","O","n","c","e">>)]

\* what the handler leaves on the connection: a written AdmissionReview, or
\* nothing at all when the goroutine panicked (net/http recovers and closes)
NoPatch == << >>

Response(uid, allowed, patch, patchType, hasResult, message, code) ==
  [panicked |-> FALSE, written |-> 1, status |-> 200, uid |-> uid,
   allowed |-> allowed, patch |-> patch, patchType |-> patchType,
   hasResult |-> hasResult, message |-> message, code |-> code]

Panicked ==
  [panicked |-> TRUE, written |-> 0, status |-> 0, uid |-> "",
   allowed |-> FALSE, patch |-> NoPatch, patchType |-> "",
   hasResult |-> FALSE, message |-> "", code |-> 0]

\* allow(in): in.Request.UID dereferences in.Request
allow(in) ==
  IF ~in.hasRequest THEN Panicked
  ELSE Response(in.uid, TRUE, NoPatch, "", FALSE, "", 0)

\* toErrorResponse(in, err): in.Request.UID dereferences in.Request
toErrorResponse(in, msg) ==
  IF ~in.hasRequest THEN Panicked
  ELSE Response(in.uid, FALSE, NoPatch, "", TRUE, msg, 500)

\* fmt.Sprintf("pvc-webhook.vol/%s", v.Name)
volKey(name) == <<"p","v","c","-","w","e","b","h","o","o","k",".","v","o","l","/">> \o name

SizeKey(name) == volKey(name) \o <<".","s","i","z","e">>

StorageClassKey(name) == volKey(name) \o <<".","s","t","o","r","a","g","e","C","l","a","s","s">>

AccessModesKey(name) == volKey(name) \o <<".","a","c","c","e","s","s","M","o","d","e","s">>

ClaimNameKey(name) == volKey(name) \o <<".","c","l","a","i","m","N","a","m","e">>

\* addAnno[k] = v, remembering the order in which keys were first inserted
AnnoPut(acc, k, v) ==
  [acc EXCEPT !.keys = IF k \in Range(acc.keys) THEN acc.keys ELSE Append(acc.keys, k),
              !.anno = KVPut(acc.anno, k, v)]

\* the loop body with the number of volumes of the pod made part of the claim name
convertVolume_countInName(h, pod, i, v, acc) ==
  IF v.source # "emptyDir" THEN acc
  ELSE
    LET size  == pick(<<MapGet(pod.annotations, SizeKey(v.name)), h.defaultSize>>)
        sc    == pick(<<MapGet(pod.annotations, StorageClassKey(v.name)), h.defaultSC>>)
        am    == pick(<<MapGet(pod.annotations, AccessModesKey(v.name)), h.defaultAccess>>)
        claim == claimName(pod.namespace, pod.name, v.name \o Itoa(Len(pod.volumes)))
        a0 == [acc EXCEPT !.converted = TRUE,
                          !.ops = Append(acc.ops,
                                    replaceOp(<<"/","s","p","e","c","/","v","o","l","u","m","e","s","/">> \o Itoa(i), PVCVol(v.name, claim)))]
        a1 == AnnoPut(a0, SizeKey(v.name), size)
        a2 == AnnoPut(a1, StorageClassKey(v.name), sc)
        a3 == AnnoPut(a2, AccessModesKey(v.name), am)
    IN  AnnoPut(a3, ClaimNameKey(v.name), claim)

\* the loop body without  if v.EmptyDir == nil { continue }
convertVolume_everyVolume(h, pod, i, v, acc) ==
  LET size  == pick(<<MapGet(pod.annotations, SizeKey(v.name)), h.defaultSize>>)
      sc    == pick(<<MapGet(pod.annotations, StorageClassKey(v.name)), h.defaultSC>>)
      am    == pick(<<MapGet(pod.annotations, AccessModesKey(v.name)), h.defaultAccess>>)
      claim == claimName(pod.namespace, pod.name, v.name)
      a0 == [acc EXCEPT !.converted = TRUE,
                        !.ops = Append(acc.ops,
                                  replaceOp(<<"/","s","p","e","c","/","v","o","l","u","m","e","s","/">> \o Itoa(i), PVCVol(v.name, claim)))]
      a1 == AnnoPut(a0, SizeKey(v.name), size)
      a2 == AnnoPut(a1, StorageClassKey(v.name), sc)
      a3 == AnnoPut(a2, AccessModesKey(v.name), am)
  IN  AnnoPut(a3, ClaimNameKey(v.name), claim)

\* one iteration of  for i, v := range pod.Spec.Volumes  (i is 0-based)
convertVolume(h, pod, i, v, acc) ==
  IF v.source # "emptyDir" THEN acc
  ELSE
    LET size  == pick(<<MapGet(pod.annotations, SizeKey(v.name)), h.defaultSize>>)
        sc    == pick(<<MapGet(pod.annotations, StorageClassKey(v.name)), h.defaultSC>>)
        am    == pick(<<MapGet(pod.annotations, AccessModesKey(v.name)), h.defaultAccess>>)
        claim == claimName(pod.namespace, pod.name, v.name)
        a0 == [acc EXCEPT !.converted = TRUE,
                          !.ops = Append(acc.ops,
                                    replaceOp(<<"/","s","p","e","c","/","v","o","l","u","m","e","s","/">> \o Itoa(i), PVCVol(v.name, claim)))]
        a1 == AnnoPut(a0, SizeKey(v.name), size)
        a2 == AnnoPut(a1, StorageClassKey(v.name), sc)
        a3 == AnnoPut(a2, AccessModesKey(v.name), am)
    IN  AnnoPut(a3, ClaimNameKey(v.name), claim)

RECURSIVE convertVolumes_lastFirst(_, _, _, _)
convertVolumes_lastFirst(h, pod, n, acc) ==
  IF n > Len(pod.volumes) THEN acc
  ELSE convertVolume(h, pod, n - 1, pod.volumes[n], convertVolumes_lastFirst(h, pod, n + 1, acc))

\* for i, v := range pod.Spec.Volumes, from volume n on
RECURSIVE convertVolumes(_, _, _, _)
convertVolumes(h, pod, n, acc) ==
  IF n > Len(pod.volumes) THEN acc
  ELSE convertVolumes(h, pod, n + 1, convertVolume(h, pod, n - 1, pod.volumes[n], acc))

\* for k, v := range addAnno: Go leaves the order open; a map of up to eight
\* entries is walked from a random slot, so the order is a rotation of the
\* insertion order
mapOrder(keys, off) ==
  [i \in 1..Len(keys) |-> keys[((i - 1 + off) % Len(keys)) + 1]]

annoOps(acc, order) ==
  [i \in 1..Len(order) |->
     addOp(pathEscape(<<"/","m","e","t","a","d","a","t","a","/","a","n","n","o","t","a","t","i","o","n","s","/">> \o order[i]), acc.anno[order[i]])]

\* review.Request == nil || review.Request.Kind.Kind != "Pod"
notAPod_everyKind(review) == ~review.hasRequest

notAPod(review) == ~review.hasRequest \/ review.kind # "Pod"

\* pod.Annotations != nil && pod.Annotations[convertedAnno] == "true"
alreadyConverted_wrongKey(pod) ==
  ~pod.annotations.isNil /\ MapGet(pod.annotations, volKey(convertedAnno)) = StrTrue

alreadyConverted(pod) ==
  ~pod.annotations.isNil /\ MapGet(pod.annotations, convertedAnno) = StrTrue

ServeHTTP(h, review, off) ==
  IF review.decodeErr THEN toErrorResponse(review, "decode review")
  ELSE IF notAPod(review) THEN allow(review)
  ELSE IF ~review.podDecodes THEN toErrorResponse(review, "decode pod")
  ELSE
    LET pod == review.pod
    IN  IF alreadyConverted(pod)
        THEN allow(review)
        ELSE
          LET acc == convertVolumes(h, pod, 1,
                       [ops |-> << >>, keys |-> << >>, anno |-> EmptyKV, converted |-> FALSE])
              ops1 == IF pod.annotations.isNil
                      THEN Append(acc.ops, addOp(<<"/","m","e","t","a","d","a","t","a","/","a","n","n","o","t","a","t","i","o","n","s">>, EmptyKV))
                      ELSE acc.ops
              ops2 == ops1 \o annoOps(acc, mapOrder(acc.keys, off))
              ops3 == Append(ops2,
                        addOp(pathEscape(<<"/","m","e","t","a","d","a","t","a","/","a","n","n","o","t","a","t","i","o","n","s","/">> \o convertedAnno), StrTrue))
          IN  IF ~acc.converted THEN allow(review)
              ELSE Response(review.uid, TRUE, ops3, "JSONPatch", TRUE,
                            "converted emptyDir to PVC", 0)

\* ------------------------------------------------------------ the patch, applied

\* the API server applies the JSON patch of an allowed response to the pod it
\* sent: paths are RFC 6901 pointers, split at "/" and then un-escaped
RECURSIVE Split(_, _)
Split(s, c) ==
  IF \A i \in DOMAIN s : s[i] # c THEN <<s>>
  ELSE LET i == CHOOSE j \in DOMAIN s : s[j] = c /\ \A k \in 1..(j - 1) : s[k] # c
       IN  <<SubSeq(s, 1, i - 1)>> \o Split(SubSeq(s, i + 1, Len(s)), c)

\* one reference token: "~1" is "/", then "~0" is "~"
Unescape(seg) == ReplaceAll(ReplaceAll(seg, <<"~","1">>, <<"/">>), <<"~","0">>, <<"~">>)

\* the reference tokens of a pointer; the empty pointer addresses the whole document
DecodePointer(path) ==
  IF path = << >> THEN << >>
  ELSE LET toks == Split(Tail(path), "/")
       IN  [i \in DOMAIN toks |-> Unescape(toks[i])]

IsIndex(seg) == seg # << >> /\ \A i \in DOMAIN seg : seg[i] \in Range(Digits)

RECURSIVE Atoi(_)
Atoi(seg) ==
  IF seg = << >> THEN 0
  ELSE 10 * Atoi(SubSeq(seg, 1, Len(seg) - 1))
       + ((CHOOSE d \in DOMAIN Digits : Digits[d] = seg[Len(seg)]) - 1)

SegMetadata == <<"m","e","t","a","d","a","t","a">>

SegAnnotations == <<"a","n","n","o","t","a","t","i","o","n","s">>

SegSpec == <<"s","p","e","c">>

SegVolumes == <<"v","o","l","u","m","e","s">>

\* the pod as a JSON document: the annotation map, the volumes, and the names of
\* the members a patch added at the root beside metadata and spec
PodDoc(pod) ==
  [ok |-> TRUE, annotations |-> pod.annotations, volumes |-> pod.volumes, extra |-> {}]

ApplyOp(d, o) ==
  LET segs == DecodePointer(o.path)
  IN  IF ~d.ok \/ o.path = << >> \/ Head(o.path) # "/" THEN [d EXCEPT !.ok = FALSE]
      ELSE IF o.op = "replace" /\ Len(segs) = 3 /\ segs[1] = SegSpec /\ segs[2] = SegVolumes
              /\ IsIndex(segs[3])
           THEN IF Atoi(segs[3]) < Len(d.volumes)
                THEN [d EXCEPT !.volumes[Atoi(segs[3]) + 1] = o.value]
                ELSE [d EXCEPT !.ok = FALSE]
      ELSE IF o.op = "add" /\ segs = <<SegMetadata, SegAnnotations>>
           THEN [d EXCEPT !.annotations = [isNil |-> FALSE, kv |-> o.value]]
      ELSE IF o.op = "add" /\ Len(segs) = 3 /\ segs[1] = SegMetadata /\ segs[2] = SegAnnotations
           THEN IF d.annotations.isNil
                THEN [d EXCEPT !.ok = FALSE]
                ELSE [d EXCEPT !.annotations.kv = KVPut(d.annotations.kv, segs[3], o.value)]
      ELSE IF o.op = "add" /\ Len(segs) = 1 /\ segs[1] \notin {SegMetadata, SegSpec}
           THEN [d EXCEPT !.extra = d.extra \cup {segs[1]}]
      ELSE [d EXCEPT !.ok = FALSE]

RECURSIVE ApplyPatch(_, _)
ApplyPatch(d, ops) ==
  IF ops = << >> THEN d ELSE ApplyPatch(ApplyOp(d, Head(ops)), Tail(ops))

\* the pod the API server persists: the patched document decoded as a Pod, which
\* keeps metadata and spec and drops the members a Pod does not have
PatchedPod(pod, d) ==
  [pod EXCEPT !.annotations = d.annotations, !.volumes = d.volumes]

\* ------------------------------------------------------------ main.go: mutatePods

\* fmt.Sprintf("pvc-%s-%s", pod.Name, vol.Name)
legacyPVCName(pod, v) == <<"p","v","c","-">> \o pod.name \o <<"-">> \o v.name

\* "pvc-webhook/" + vol.Name
legacyAnnoKey(v) == <<"p","v","c","-","w","e","b","h","o","o","k","/">> \o v.name

\* one iteration of  for i, vol := range pod.Spec.Volumes  (i is 0-based): the
\* replace, then the add of the whole map while pod.Annotations is nil or of
\* length 0, after which pod.Annotations is the empty map, else the add of a key
mutateVolume(pod, i, v, acc) ==
  IF v.source # "emptyDir" THEN acc
  ELSE
    LET pvcName == legacyPVCName(pod, v)
        rep     == replaceOp(<<"/","s","p","e","c","/","v","o","l","u","m","e","s","/">> \o Itoa(i), PVCVol(v.name, pvcName))
    IN  IF acc.annotations.isNil \/ DOMAIN acc.annotations.kv = {}
        THEN [ops |-> acc.ops \o
                        <<rep, addOp(<<"/","m","e","t","a","d","a","t","a","/","a","n","n","o","t","a","t","i","o","n","s">>,
                                     KVPut(EmptyKV, legacyAnnoKey(v), pvcName))>>,
              annotations |-> EmptyMap]
        ELSE [ops |-> acc.ops \o
                        <<rep, addOp(<<"/","m","e","t","a","d","a","t","a","/","a","n","n","o","t","a","t","i","o","n","s","/">>
                                       \o escapeJSONPointer(legacyAnnoKey(v)), pvcName)>>,
              annotations |-> acc.annotations]

RECURSIVE mutateVolumes(_, _, _)
mutateVolumes(pod, n, acc) ==
  IF n > Len(pod.volumes) THEN acc
  ELSE mutateVolumes(pod, n + 1, mutateVolume(pod, n - 1, pod.volumes[n], acc))

\* the patches mutatePods marshals for a pod
mutatePods(pod) ==
  mutateVolumes(pod, 1, [ops |-> << >>, annotations |-> pod.annotations]).ops

\* ------------------------------------------------------------ state

VARIABLES
  handler,   \* the Handler NewHandler built: its three defaults
  review,    \* the AdmissionReview of the request being served
  resp,      \* what ServeHTTP left on the connection
  stage,     \* where the admission stands: idle, received, answered, applied, persisted
  doc,       \* the pod document after the API server applied the patch
  earlier,   \* a claim name an earlier admission derived, and for which volume
  calc,      \* a call of one of the pure functions: its arguments and its result
  variant,   \* which Reconcile implementation the manager runs
  config,    \* the reconciler's DefaultSize and DefaultClass
  pods,      \* the pods of the cluster, by namespace and name
  pvcs,      \* the PVCs of the cluster, by namespace and name
  pass,      \* the reconcile pass in progress: its position, what it read, what it issued
  faultsLeft \* how many more cluster calls may fail with a transient error

admVars == <<handler, review, resp, stage, doc, earlier, calc>>

ctlVars == <<variant, config, pods, pvcs, pass, faultsLeft>>

vars ==
  <<handler, review, resp, stage, doc, earlier, calc, variant, config, pods, pvcs, pass, faultsLeft>>

\* ------------------------------------------------------------ admission inputs

\* the most volumes a submitted pod has
MaxVolumes == 2

Ns1 == <<"n","s","1">>

Ns2 == <<"n","s","2">>

WebZero == <<"w","e","b","-","0">>

\* a pod name of 54 characters: "pvc-ns1-" and it fill 62, the hyphen before the
\* volume name is the 63rd
LongPodName == <<"a","n","a","l","y","t","i","c","s","-","b","a","t","c","h","-","w","o","r","k","e","r","-","w","i","t","h","-","a","-","v","e","r","y","-","l","o","n","g","-","g","e","n","e","r","a","t","e","d","-","n","a","m","e">>

PodNames == {WebZero, <<"W","e","b","_","1">>, LongPodName}

\* volume names, by position; the second holds both characters RFC 6901 reserves
VolNames == <<<<"d","a","t","a">>, <<"t","~","m","/","p">>, <<"l","o","g","s">>, <<"c","a","c","h","e">>>>

VolName(i) == IF i <= Len(VolNames) THEN VolNames[i] ELSE <<"v","o","l">> \o Itoa(i)

\* every volume list of a length: position i is an emptyDir or another volume
VolumeLists(n) ==
  {[i \in 1..n |-> IF e[i] THEN EmptyDirVol(VolName(i)) ELSE OtherVol(VolName(i))] :
     e \in [1..n -> BOOLEAN]}

VolumeInputs == UNION {VolumeLists(n) : n \in 0..MaxVolumes}

\* the legacy, one-claim-per-pod annotation keys the reconcilers read
ClaimAnno == <<"p","v","c","-","w","e","b","h","o","o","k","/","c","l","a","i","m">>

StorageSizeAnno == <<"p","v","c","-","w","e","b","h","o","o","k","/","s","t","o","r","a","g","e","-","s","i","z","e">>

StorageClassAnno == <<"p","v","c","-","w","e","b","h","o","o","k","/","s","t","o","r","a","g","e","-","c","l","a","s","s">>

Anno1(k, v) == [isNil |-> FALSE, kv |-> KVPut(EmptyKV, k, v)]

Anno2(k1, v1, k2, v2) == [isNil |-> FALSE, kv |-> KVPut(KVPut(EmptyKV, k1, v1), k2, v2)]

AnnotationInputs ==
  {NilMap, EmptyMap,
   Anno1(convertedAnno, StrTrue),
   Anno1(convertedAnno, <<"f","a","l","s","e">>),
   Anno2(convertedAnno, StrTrue, SizeKey(VolName(1)), <<"5","G","i">>),
   Anno2(SizeKey(VolName(1)), <<"5","G","i">>, StorageClassKey(VolName(1)), <<" ">>),
   Anno1(ClaimAnno, <<"p","v","c","-","x">>)}

PodInputs ==
  {[namespace |-> Ns1, name |-> n, annotations |-> a, volumes |-> v, deleting |-> FALSE] :
     n \in PodNames, a \in AnnotationInputs, v \in VolumeInputs}

\* a pod that stands in where the review carries none that decodes
NoPod ==
  [namespace |-> << >>, name |-> << >>, annotations |-> NilMap, volumes |-> << >>,
   deleting |-> FALSE]

Uids == {"u1", "u2"}

\* an AdmissionReview as json.Decode leaves it: decodeErr with hasRequest is a
\* type error found after Request was filled in, decodeErr without it a syntax
\* error; a Request of a kind other than Pod, or whose raw object does not
\* decode, carries no pod
ReviewInputs ==
  {[decodeErr |-> d, hasRequest |-> FALSE, uid |-> "", kind |-> "", podDecodes |-> FALSE,
    pod |-> NoPod] : d \in BOOLEAN}
  \cup
  {[decodeErr |-> d, hasRequest |-> TRUE, uid |-> u, kind |-> k, podDecodes |-> FALSE,
    pod |-> NoPod] : d \in BOOLEAN, u \in Uids, k \in {"Pod", "Service"}}
  \cup
  {[decodeErr |-> FALSE, hasRequest |-> TRUE, uid |-> u, kind |-> "Pod", podDecodes |-> TRUE,
    pod |-> p] : u \in Uids, p \in PodInputs}

NoReview ==
  [decodeErr |-> FALSE, hasRequest |-> FALSE, uid |-> "", kind |-> "", podDecodes |-> FALSE,
   pod |-> NoPod]

NoResponse ==
  [panicked |-> FALSE, written |-> 0, status |-> 0, uid |-> "",
   allowed |-> FALSE, patch |-> NoPatch, patchType |-> "",
   hasResult |-> FALSE, message |-> "", code |-> 0]

NoDoc == PodDoc(NoPod)

\* DEFAULT_SIZE, DEFAULT_STORAGE_CLASS, DEFAULT_ACCESS_MODES: unset, or all set
EnvInputs ==
  {[size |-> << >>, sc |-> << >>, access |-> << >>],
   [size |-> <<"2","0","G","i">>, sc |-> <<"f","a","s","t">>, access |-> <<"R","e","a","d","W","r","i","t","e","M","a","n","y">>]}

\* ------------------------------------------------------------ admission

\* no admission remembered yet
NoEarlier ==
  [set |-> FALSE, ns |-> << >>, pod |-> << >>, vol |-> << >>,
   inVolume |-> << >>, inAnno |-> << >>, count |-> 0]

\* no call of a pure function in progress
NoCalc == [fn |-> "none", args |-> << >>, done |-> FALSE, out |-> << >>]

AdmInit ==
  /\ handler \in {NewHandler(e) : e \in EnvInputs}
  /\ review = NoReview
  /\ resp = NoResponse
  /\ stage = "idle"
  /\ doc = NoDoc
  /\ earlier = NoEarlier
  /\ calc = NoCalc

\* the API server posts an AdmissionReview to /mutate
Receive ==
  /\ stage = "idle"
  /\ review' \in ReviewInputs
  /\ resp' = NoResponse
  /\ doc' = NoDoc
  /\ stage' = "received"
  /\ UNCHANGED <<handler, earlier, calc, ctlVars>>

\* Handler.ServeHTTP, whole; off is where the walk over addAnno starts
Serve ==
  /\ stage = "received"
  /\ \E off \in 0..(4 * MaxVolumes - 1) : resp' = ServeHTTP(handler, review, off)
  /\ stage' = "answered"
  /\ UNCHANGED <<handler, review, doc, earlier, calc, ctlVars>>

\* an allowed answer for a pod: the API server applies its patch (none is the
\* empty patch) to the pod it sent
Apply ==
  /\ stage = "answered"
  /\ resp.written = 1 /\ resp.allowed
  /\ review.hasRequest /\ review.kind = "Pod" /\ review.podDecodes
  /\ doc' = ApplyPatch(PodDoc(review.pod), resp.patch)
  /\ stage' = "applied"
  /\ UNCHANGED <<handler, review, resp, earlier, calc, ctlVars>>

\* the request is over: denied, dropped, not a pod, or patched
Finish ==
  /\ stage \in {"answered", "applied"}
  /\ stage' = "idle"
  /\ review' = NoReview
  /\ resp' = NoResponse
  /\ doc' = NoDoc
  /\ UNCHANGED <<handler, earlier, calc, ctlVars>>

\* one of the claim names an answer derived is remembered, for comparison with
\* the admissions that follow: the name in a replaced volume and the one recorded
\* under <volKey>.claimName, with the number of volumes the pod had
Remember ==
  /\ stage = "answered"
  /\ \E i \in DOMAIN resp.patch, j \in DOMAIN resp.patch :
       /\ resp.patch[i].op = "replace"
       /\ resp.patch[j].op = "add"
       /\ resp.patch[j].path =
            pathEscape(<<"/","m","e","t","a","d","a","t","a","/","a","n","n","o","t","a","t","i","o","n","s","/">> \o ClaimNameKey(resp.patch[i].value.name))
       /\ earlier' =
            [set |-> TRUE, ns |-> review.pod.namespace, pod |-> review.pod.name,
             vol |-> resp.patch[i].value.name,
             inVolume |-> resp.patch[i].value.claimName,
             inAnno |-> resp.patch[j].value,
             count |-> Len(review.pod.volumes)]
  /\ UNCHANGED <<handler, review, resp, stage, doc, calc, ctlVars>>
\* ------------------------------------------------------------ the cluster

\* resource.ParseQuantity, on the decimal integers with a binary or decimal
\* suffix: whether s parses
QuantitySuffixes ==
  {<< >>, <<"K","i">>, <<"M","i">>, <<"G","i">>, <<"T","i">>, <<"P","i">>, <<"E","i">>,
   <<"k">>, <<"M">>, <<"G">>, <<"T">>, <<"P">>, <<"E">>, <<"m">>}

ParseQuantityOK(s) ==
  \E n \in 1..Len(s) :
    /\ \A i \in 1..n : s[i] \in Range(Digits)
    /\ SubSeq(s, n + 1, Len(s)) \in QuantitySuffixes

ReadWriteOnce == <<"R","e","a","d","W","r","i","t","e","O","n","c","e">>

\* the reconciler the manager runs (cmd main wires PersistentVolumeClaimReconciler)
\* and the other Reconcile implementations the repository holds
Variants ==
  {"PersistentVolumeClaimReconciler",   \* controllers/oneagent-controller.go
   "PVCReconciler",                     \* the PVCReconciler that sets an owner reference
   "PVCReconcilerRoot",                 \* oneagent-controller.go at the root: no owner reference
   "PodReconciler"}

NoConfig == [DefaultSize |-> << >>, DefaultClass |-> << >>]

\* PVCReconciler{DefaultSize, DefaultClass}: left zero, or set
Configs(v) ==
  IF v \in {"PVCReconciler", "PVCReconcilerRoot"}
  THEN {NoConfig, [DefaultSize |-> <<"1","G","i">>, DefaultClass |-> <<"s","t","a","n","d","a","r","d">>]}
  ELSE {NoConfig}

\* ctrl.Result{RequeueAfter: n * time.Second} and the error returned with it
Result(requeue, err) == [requeue |-> requeue, err |-> err]

NoClass == [set |-> FALSE, name |-> << >>]

Class(name) == [set |-> TRUE, name |-> name]

\* what a pass decides once it holds the pod: stop with a result, or go on to a
\* cluster call with the size string and the storage class it resolved
Stop(res) == [pc |-> "done", sizeStr |-> << >>, class |-> NoClass, res |-> res]

GoOn(pc, sizeStr, class) == [pc |-> pc, sizeStr |-> sizeStr, class |-> class, res |-> Result(0, "")]

\* controllers/oneagent-controller.go: claim, storage-size (default 2Gi), storage-class
PersistentVolumeClaimReconciler_afterPod_ignoresSize(pod) ==
  LET claim == MapGet(pod.annotations, ClaimAnno)
      sc    == MapGet(pod.annotations, StorageClassAnno)
  IN  IF claim = << >> THEN Stop(Result(0, ""))
      ELSE GoOn("getPVC", <<"2","G","i">>, IF sc # << >> THEN Class(sc) ELSE NoClass)

PersistentVolumeClaimReconciler_afterPod(pod) ==
  LET claim == MapGet(pod.annotations, ClaimAnno)
      size  == MapGet(pod.annotations, StorageSizeAnno)
      sc    == MapGet(pod.annotations, StorageClassAnno)
  IN  IF claim = << >> THEN Stop(Result(0, ""))
      ELSE GoOn("getPVC", IF size = << >> THEN <<"2","G","i">> ELSE size,
                IF sc # << >> THEN Class(sc) ELSE NoClass)

\* PVCReconciler without  if !ok || claimName == "" { return }
PVCReconciler_afterPod_noClaimCheck(r, pod) ==
  LET size    == MapGet(pod.annotations, StorageSizeAnno)
      sizeStr == IF size = << >> THEN r.DefaultSize ELSE size
      sc      == MapGet(pod.annotations, StorageClassAnno)
  IN  IF pod.deleting THEN GoOn("getPVCForDelete", << >>, NoClass)
      ELSE IF ~ParseQuantityOK(sizeStr) THEN Stop(Result(0, ""))
      ELSE GoOn("getPVC", sizeStr, Class(IF sc = << >> THEN r.DefaultClass ELSE sc))

\* PVCReconciler: the deletion branch first, then size (default r.DefaultSize, an
\* unparseable one ends the pass) and class (default r.DefaultClass, always set)
PVCReconciler_afterPod(r, pod) ==
  LET claim   == MapGet(pod.annotations, ClaimAnno)
      size    == MapGet(pod.annotations, StorageSizeAnno)
      sizeStr == IF size = << >> THEN r.DefaultSize ELSE size
      sc      == MapGet(pod.annotations, StorageClassAnno)
  IN  IF claim = << >> THEN Stop(Result(0, ""))
      ELSE IF pod.deleting THEN GoOn("getPVCForDelete", << >>, NoClass)
      ELSE IF ~ParseQuantityOK(sizeStr) THEN Stop(Result(0, ""))
      ELSE GoOn("getPVC", sizeStr, Class(IF sc = << >> THEN r.DefaultClass ELSE sc))

\* PodReconciler: size (default 2Gi, an unparseable one ends the pass), class
\* (default robin-repl-3)
PodReconciler_afterPod(pod) ==
  LET claim   == MapGet(pod.annotations, ClaimAnno)
      size    == MapGet(pod.annotations, StorageSizeAnno)
      sizeStr == IF size = << >> THEN <<"2","G","i">> ELSE size
      sc      == MapGet(pod.annotations, StorageClassAnno)
      cls     == IF sc = << >> THEN <<"r","o","b","i","n","-","r","e","p","l","-","3">> ELSE sc
  IN  IF claim = << >> THEN Stop(Result(0, ""))
      ELSE IF ~ParseQuantityOK(sizeStr) THEN Stop(Result(0, ""))
      ELSE GoOn("getPVC", sizeStr, IF cls # << >> THEN Class(cls) ELSE NoClass)

afterPod(v, r, pod) ==
  CASE v = "PersistentVolumeClaimReconciler" -> PersistentVolumeClaimReconciler_afterPod(pod)
    [] v \in {"PVCReconciler", "PVCReconcilerRoot"} -> PVCReconciler_afterPod(r, pod)
    [] v = "PodReconciler" -> PodReconciler_afterPod(pod)

\* the switch on pvc.Status.Phase of controllers/oneagent-controller.go
PersistentVolumeClaimReconciler_onFound_oneDelay(phase) ==
  CASE phase = "Bound" -> Result(0, "")
    [] OTHER -> Result(5, "")

PersistentVolumeClaimReconciler_onFound(phase) ==
  CASE phase = "Bound" -> Result(0, "")
    [] phase = "Pending" -> Result(5, "")
    [] OTHER -> Result(10, "")

\* the get found the PVC: the other reconcilers return at once
onFound(v, phase) ==
  IF v = "PersistentVolumeClaimReconciler"
  THEN PersistentVolumeClaimReconciler_onFound(phase)
  ELSE Result(0, "")

\* qty of controllers/oneagent-controller.go: an unparseable size becomes 2Gi
PersistentVolumeClaimReconciler_qty(sizeStr) ==
  IF ParseQuantityOK(sizeStr) THEN sizeStr ELSE <<"2","G","i">>

\* the PVC built in the namespace "default" instead of the pod's
PVCObject_defaultNamespace(ns, name, qty, class, hasOwner, owner, labelled) ==
  [namespace |-> <<"d","e","f","a","u","l","t">>, name |-> name, size |-> qty, class |-> class,
   access |-> <<ReadWriteOnce>>, hasOwner |-> hasOwner, owner |-> owner,
   labelled |-> labelled, phase |-> ""]

\* the PersistentVolumeClaim a pass builds before r.Create
PVCObject(ns, name, qty, class, hasOwner, owner, labelled) ==
  [namespace |-> ns, name |-> name, size |-> qty, class |-> class,
   access |-> <<ReadWriteOnce>>, hasOwner |-> hasOwner, owner |-> owner,
   labelled |-> labelled, phase |-> ""]

buildPVC(v, p) ==
  CASE v = "PersistentVolumeClaimReconciler" ->
         PVCObject(p.ns, p.claim, PersistentVolumeClaimReconciler_qty(p.sizeStr), p.class,
                   TRUE, p.key, TRUE)
    [] v = "PVCReconciler" -> PVCObject(p.ns, p.claim, p.sizeStr, p.class, TRUE, p.key, FALSE)
    [] v = "PVCReconcilerRoot" ->
         PVCObject(p.ns, p.claim, p.sizeStr, p.class, FALSE, p.key, FALSE)
    [] v = "PodReconciler" -> PVCObject(p.ns, p.claim, p.sizeStr, p.class, TRUE, p.key, FALSE)

\* r.Create returned nil, and no reconciler asks to come back
onCreated_noRequeue(v) == Result(0, "")

\* r.Create returned nil: requeue to check binding, or nothing
onCreated(v) == IF v = "PersistentVolumeClaimReconciler" THEN Result(5, "") ELSE Result(0, "")

\* after a create that succeeded: r.Recorder.Eventf(&pod, Normal, "PVCProvisioned", ...)
\* where SetupWithManager gave the reconciler a recorder
recordCreated(v, key) ==
  IF v = "PersistentVolumeClaimReconciler"
  THEN <<[kind |-> "Event", namespace |-> key[1], about |-> key, reason |-> "PVCProvisioned"]>>
  ELSE << >>

\* r.Create returned err
onCreateError(v, err) == Result(0, err)

\* ------------------------------------------------------------ cluster state

\* the pod keys (namespace, name) the controller is asked to reconcile
K1 == <<Ns1, WebZero>>

K2 == <<Ns2, <<"w","e","b","-","1">>>>

PodKeys == {K1, K2}

Absent == [exists |-> FALSE, obj |-> NoPod]

Present(pod) == [exists |-> TRUE, obj |-> pod]

ClaimX == <<"p","v","c","-","x">>

Anno3(k1, v1, k2, v2, k3, v3) ==
  [isNil |-> FALSE, kv |-> KVPut(KVPut(KVPut(EmptyKV, k1, v1), k2, v2), k3, v3)]

\* the annotations of the pods the cluster starts with: none, an empty claim, a
\* claim alone, a claim with size and class, with an unparseable size, with an
\* empty class
CtlAnnotations ==
  {NilMap,
   Anno1(ClaimAnno, << >>),
   Anno1(ClaimAnno, ClaimX),
   Anno3(ClaimAnno, ClaimX, StorageSizeAnno, <<"5","G","i">>, StorageClassAnno, <<"f","a","s","t">>),
   Anno2(ClaimAnno, ClaimX, StorageSizeAnno, <<"b","o","g","u","s">>),
   Anno2(ClaimAnno, ClaimX, StorageClassAnno, << >>)}

CtlPod(k, a) ==
  [namespace |-> k[1], name |-> k[2], annotations |-> a, volumes |-> << >>,
   deleting |-> FALSE]

NoPVC == PVCObject(<< >>, << >>, << >>, NoClass, FALSE, K1, FALSE)

\* a PVC of that name another client of the cluster created
ForeignPVC(key) ==
  [PVCObject(key[1], key[2], <<"1","G","i">>, NoClass, FALSE, K1, FALSE) EXCEPT !.phase = "Pending"]

KVDel(kv, k) == [x \in DOMAIN kv \ {k} |-> kv[x]]

\* the PVC keys the pods of the cluster name in their claim annotation
ClaimedKeys ==
  {<<pods[k].obj.namespace, MapGet(pods[k].obj.annotations, ClaimAnno)>> :
     k \in {x \in PodKeys : pods[x].exists
                            /\ MapGet(pods[x].obj.annotations, ClaimAnno) # << >>}}

NoPass ==
  [pc |-> "idle", key |-> K1, found |-> FALSE, ns |-> << >>, claim |-> << >>,
   deleting |-> FALSE, sizeStr |-> << >>, class |-> NoClass,
   absentAtStart |-> FALSE, pvcSeen |-> "unknown", fetched |-> NoPVC,
   getFailed |-> FALSE, writes |-> << >>, events |-> << >>, answer |-> "",
   res |-> Result(0, "")]

Write(verb, obj) == [verb |-> verb, obj |-> obj]

\* ------------------------------------------------------------ Reconcile

\* the most cluster calls that fail with a transient error in one run
MaxFaults == 1

\* a cluster call is answered, or fails while failures are left
FaultChoices == IF faultsLeft > 0 THEN BOOLEAN ELSE {FALSE}

FaultsAfter(fail) == IF fail THEN faultsLeft - 1 ELSE faultsLeft

\* a pass begins: r.Get of the pod, then everything up to the next cluster call
StartPass(k) ==
  /\ pass.pc \in {"idle", "done"}
  /\ \E fail \in FaultChoices :
       /\ faultsLeft' = FaultsAfter(fail)
       /\ pass' =
         IF fail
         THEN [NoPass EXCEPT !.pc = "done", !.key = k, !.getFailed = TRUE,
                             !.res = Result(0, "get pod")]
         ELSE IF ~pods[k].exists
         THEN [NoPass EXCEPT !.pc = "done", !.key = k]
         ELSE LET pod   == pods[k].obj
                  claim == MapGet(pod.annotations, ClaimAnno)
                  plan  == afterPod(variant, config, pod)
              IN  [NoPass EXCEPT !.pc = plan.pc, !.key = k, !.found = TRUE,
                                 !.ns = pod.namespace, !.claim = claim,
                                 !.deleting = pod.deleting,
                                 !.sizeStr = plan.sizeStr, !.class = plan.class,
                                 !.absentAtStart = <<pod.namespace, claim>> \notin DOMAIN pvcs,
                                 !.res = plan.res]
  /\ UNCHANGED <<admVars, variant, config, pods, pvcs>>

\* r.Get of the PVC on the creation path
GetPVC ==
  /\ pass.pc = "getPVC"
  /\ LET key == <<pass.ns, pass.claim>>
     IN  \E fail \in FaultChoices :
           /\ faultsLeft' = FaultsAfter(fail)
           /\ pass' =
             IF fail
             THEN [pass EXCEPT !.pc = "done", !.getFailed = TRUE, !.res = Result(0, "get pvc")]
             ELSE IF key \in DOMAIN pvcs
             THEN [pass EXCEPT !.pc = "done", !.pvcSeen = "present", !.fetched = pvcs[key],
                               !.res = onFound(variant, pvcs[key].phase)]
             ELSE [pass EXCEPT !.pc = "create", !.pvcSeen = "absent"]
  /\ UNCHANGED <<admVars, variant, config, pods, pvcs>>

\* r.Create: the API server stores the PVC as Pending, or answers AlreadyExists,
\* or the call fails
Create ==
  /\ pass.pc = "create"
  /\ LET obj == buildPVC(variant, pass)
         key == <<obj.namespace, obj.name>>
         p1  == [pass EXCEPT !.pc = "done", !.writes = Append(pass.writes, Write("create", obj))]
     IN  \E fail \in FaultChoices :
           /\ faultsLeft' = FaultsAfter(fail)
           /\ IF fail
              THEN /\ pass' = [p1 EXCEPT !.answer = "Failed",
                                              !.res = onCreateError(variant, "create failed")]
                   /\ pvcs' = pvcs
              ELSE IF key \in DOMAIN pvcs
              THEN /\ pass' = [p1 EXCEPT !.answer = "AlreadyExists",
                                              !.res = onCreateError(variant, "AlreadyExists")]
                   /\ pvcs' = pvcs
              ELSE /\ pass' = [p1 EXCEPT !.answer = "Created",
                                              !.events = recordCreated(variant, pass.key),
                                              !.res = onCreated(variant)]
                   /\ pvcs' = KVPut(pvcs, key, [obj EXCEPT !.phase = "Pending"])
  /\ UNCHANGED <<admVars, variant, config, pods>>

\* PVCReconciler, pod being deleted: r.Get of the PVC; any error ends the pass
\* with no error
GetPVCForDelete ==
  /\ pass.pc = "getPVCForDelete"
  /\ LET key == <<pass.ns, pass.claim>>
     IN  \E fail \in FaultChoices :
           /\ faultsLeft' = FaultsAfter(fail)
           /\ pass' =
             IF fail
             THEN [pass EXCEPT !.pc = "done", !.getFailed = TRUE, !.res = Result(0, "")]
             ELSE IF key \in DOMAIN pvcs
             THEN [pass EXCEPT !.pc = "delete", !.pvcSeen = "present", !.fetched = pvcs[key]]
             ELSE [pass EXCEPT !.pc = "done", !.pvcSeen = "absent", !.res = Result(0, "")]
  /\ UNCHANGED <<admVars, variant, config, pods, pvcs>>

\* PVCReconciler, pod being deleted: r.Delete of the PVC it fetched
Delete ==
  /\ pass.pc = "delete"
  /\ LET obj == pass.fetched
         key == <<obj.namespace, obj.name>>
         p1  == [pass EXCEPT !.pc = "done", !.writes = Append(pass.writes, Write("delete", obj))]
     IN  \E fail \in FaultChoices :
           /\ faultsLeft' = FaultsAfter(fail)
           /\ IF fail
              THEN /\ pass' = [p1 EXCEPT !.answer = "Failed", !.res = Result(0, "delete failed")]
                   /\ pvcs' = pvcs
              ELSE IF key \notin DOMAIN pvcs
              THEN /\ pass' = [p1 EXCEPT !.answer = "NotFound", !.res = Result(0, "NotFound")]
                   /\ pvcs' = pvcs
              ELSE /\ pass' = [p1 EXCEPT !.answer = "Deleted", !.res = Result(0, "")]
                   /\ pvcs' = KVDel(pvcs, key)
  /\ UNCHANGED <<admVars, variant, config, pods>>

\* ------------------------------------------------------------ the rest of the cluster

\* the pod is deleted: its deletion timestamp is set
MarkDeleting(k) ==
  /\ pods[k].exists /\ ~pods[k].obj.deleting
  /\ pods' = [pods EXCEPT ![k].obj.deleting = TRUE]
  /\ UNCHANGED <<admVars, variant, config, pvcs, pass, faultsLeft>>

\* the provisioner binds a pending PVC
BindPVC(key) ==
  /\ key \in DOMAIN pvcs /\ pvcs[key].phase = "Pending"
  /\ pvcs' = [pvcs EXCEPT ![key].phase = "Bound"]
  /\ UNCHANGED <<admVars, variant, config, pods, pass, faultsLeft>>

\* a bound PVC loses its volume
LosePVC(key) ==
  /\ key \in DOMAIN pvcs /\ pvcs[key].phase = "Bound"
  /\ pvcs' = [pvcs EXCEPT ![key].phase = "Lost"]
  /\ UNCHANGED <<admVars, variant, config, pods, pass, faultsLeft>>

\* another client (a second replica's pass, a retry of an earlier one) creates
\* a PVC a pod names; a reader sees it Pending, or with no phase set yet
OtherCreate(key) ==
  /\ key \in ClaimedKeys /\ key \notin DOMAIN pvcs
  /\ \E phase \in {"Pending", ""} :
       pvcs' = KVPut(pvcs, key, [ForeignPVC(key) EXCEPT !.phase = phase])
  /\ UNCHANGED <<admVars, variant, config, pods, pass, faultsLeft>>

\* ------------------------------------------------------------ specifications

CtlIdle ==
  /\ variant = "PersistentVolumeClaimReconciler"
  /\ config = NoConfig
  /\ pods = [k \in PodKeys |-> Absent]
  /\ pvcs = EmptyKV
  /\ pass = NoPass
  /\ faultsLeft = 0

\* the admission webhook alone
Init == AdmInit /\ CtlIdle

Next == Receive \/ Serve \/ Apply \/ Finish

Spec == Init /\ [][Next]_vars

\* ------------------------------------------------------------ the pure functions

\* the most candidates a call of pick is given
MaxCandidates == 3

\* candidate values: empty, blank, set, set with blanks around it
PickStrings == {<< >>, <<" ">>, <<"\t", " ">>, <<"5","G","i">>, <<" ","1","G","i"," ">>}

RECURSIVE SeqsUpTo(_, _)
SeqsUpTo(S, n) ==
  IF n = 0 THEN {<< >>}
  ELSE LET shorter == SeqsUpTo(S, n - 1)
       IN  shorter \cup {Append(s, x) : s \in shorter, x \in S}

Call(fn, args) == [fn |-> fn, args |-> args, done |-> FALSE, out |-> << >>]

PickCalls == {Call("pick", vals) : vals \in SeqsUpTo(PickStrings, MaxCandidates)}

\* the handlers of an environment that leaves the defaults unset, sets them, or
\* sets DEFAULT_SIZE to a blank
FnHandlers ==
  {NewHandler([size |-> << >>, sc |-> << >>, access |-> << >>]),
   NewHandler([size |-> <<"2","0","G","i">>, sc |-> <<"f","a","s","t">>, access |-> <<"R","e","a","d","W","r","i","t","e","M","a","n","y">>]),
   NewHandler([size |-> <<" ">>, sc |-> << >>, access |-> << >>])}

\* the per-volume overrides of a pod: empty, blank or set, for each of the three keys
Overrides == {<< >>, <<" ">>, <<"5","G","i">>}

OverridePod(sz, sc, am) ==
  [namespace |-> Ns1, name |-> WebZero,
   annotations |-> Anno3(SizeKey(VolName(1)), sz, StorageClassKey(VolName(1)), sc,
                         AccessModesKey(VolName(1)), am),
   volumes |-> <<EmptyDirVol(VolName(1))>>, deleting |-> FALSE]

ConvertCalls ==
  {Call("convertVolume", [h |-> h, pod |-> OverridePod(sz, sc, am)]) :
     h \in FnHandlers, sz \in Overrides, sc \in Overrides, am \in Overrides}

\* the longest annotation key escaped
MaxKeyLen == 3

KeyAlphabet == {"a", "/", "~", "0", "1"}

EscapeKeys == SeqsUpTo(KeyAlphabet, MaxKeyLen) \cup {SizeKey(VolName(2))}

EscapeCalls ==
  {Call(fn, k) : fn \in {"pathEscape", "escapeJSONPointer"}, k \in EscapeKeys}

\* the pods the legacy webhook is sent: no annotation map, an empty one, one
\* with a key, and every volume list
LegacyPods ==
  {[namespace |-> Ns1, name |-> WebZero, annotations |-> a, volumes |-> v, deleting |-> FALSE] :
     a \in {NilMap, EmptyMap, Anno1(ClaimAnno, <<"p","v","c","-","x">>)}, v \in VolumeInputs}

MutateCalls == {Call("mutatePods", p) : p \in LegacyPods}

\* pod and volume names, some with a hyphen inside, some not already clean
NamePods == {<<"a">>, <<"a","-","b">>, <<"w","e","b">>, <<"W","e","b">>}

NameVols == {<<"c">>, <<"b","-","c">>, <<"d","a","t","a">>, <<"d","_","t","a">>}

NamePairs == NamePods \X NameVols

\* two volumes of pods of one namespace
ClaimNameCalls ==
  {Call("claimName", [ns |-> Ns1, a |-> a, b |-> b]) : a \in NamePairs, b \in NamePairs}

\* one request, sent to ServeHTTP twice
ServeCalls ==
  {Call("ServeHTTP",
        [decodeErr |-> FALSE, hasRequest |-> TRUE, uid |-> "u1", kind |-> "Pod",
         podDecodes |-> TRUE,
         pod |-> [namespace |-> Ns1, name |-> WebZero, annotations |-> a, volumes |-> v,
                  deleting |-> FALSE]]) :
     a \in {NilMap, Anno1(SizeKey(VolName(1)), <<"5","G","i">>)}, v \in VolumeInputs}

Return(out) == calc' = [calc EXCEPT !.done = TRUE, !.out = out]

CallPick ==
  /\ calc.fn = "pick" /\ ~calc.done
  /\ Return(pick(calc.args))
  /\ UNCHANGED <<handler, review, resp, stage, doc, earlier, ctlVars>>

\* the body of the volume loop, on the one volume of the pod: what it records
\* under .size, .storageClass and .accessModes
CallConvertVolume ==
  /\ calc.fn = "convertVolume" /\ ~calc.done
  /\ LET pod == calc.args.pod
         acc == convertVolume(calc.args.h, pod, 0, pod.volumes[1],
                              [ops |-> << >>, keys |-> << >>, anno |-> EmptyKV,
                               converted |-> FALSE])
     IN  Return([size |-> acc.anno[SizeKey(VolName(1))],
                 sc   |-> acc.anno[StorageClassKey(VolName(1))],
                 am   |-> acc.anno[AccessModesKey(VolName(1))]])
  /\ UNCHANGED <<handler, review, resp, stage, doc, earlier, ctlVars>>

CallPathEscape ==
  /\ calc.fn = "pathEscape" /\ ~calc.done
  /\ Return(pathEscape(calc.args))
  /\ UNCHANGED <<handler, review, resp, stage, doc, earlier, ctlVars>>

CallEscapeJSONPointer ==
  /\ calc.fn = "escapeJSONPointer" /\ ~calc.done
  /\ Return(escapeJSONPointer(calc.args))
  /\ UNCHANGED <<handler, review, resp, stage, doc, earlier, ctlVars>>

\* the claim names ServeHTTP derives for two volumes
CallClaimName ==
  /\ calc.fn = "claimName" /\ ~calc.done
  /\ LET c == calc.args
     IN  Return(<<claimName(c.ns, c.a[1], c.a[2]), claimName(c.ns, c.b[1], c.b[2])>>)
  /\ UNCHANGED <<handler, review, resp, stage, doc, earlier, ctlVars>>

\* two invocations of ServeHTTP of one handler on the same request: each walks
\* its own addAnno map
CallServeHTTP ==
  /\ calc.fn = "ServeHTTP" /\ ~calc.done
  /\ \E off1, off2 \in 0..(4 * MaxVolumes - 1) :
       Return(<<ServeHTTP(handler, calc.args, off1), ServeHTTP(handler, calc.args, off2)>>)
  /\ UNCHANGED <<handler, review, resp, stage, doc, earlier, ctlVars>>

\* mutatePods on a pod, and the API server applying the patch it answered
CallMutatePods ==
  /\ calc.fn = "mutatePods" /\ ~calc.done
  /\ LET ops == mutatePods(calc.args)
     IN  Return([patch |-> ops, doc |-> ApplyPatch(PodDoc(calc.args), ops)])
  /\ UNCHANGED <<handler, review, resp, stage, doc, earlier, ctlVars>>

InitFn ==
  /\ handler = NewHandler([size |-> << >>, sc |-> << >>, access |-> << >>])
  /\ review = NoReview /\ resp = NoResponse /\ stage = "idle" /\ doc = NoDoc
  /\ earlier = NoEarlier
  /\ calc \in PickCalls \cup ConvertCalls \cup EscapeCalls \cup MutateCalls
             \cup ClaimNameCalls \cup ServeCalls
  /\ CtlIdle

NextFn ==
  \/ CallPick
  \/ CallConvertVolume
  \/ CallPathEscape
  \/ CallEscapeJSONPointer
  \/ CallMutatePods
  \/ CallClaimName
  \/ CallServeHTTP

SpecFn == InitFn /\ [][NextFn]_vars

\* admissions that repeat: the same pod comes again, with other annotations and
\* among other volumes, while other pods are admitted in between
RetryReviews ==
  {[decodeErr |-> FALSE, hasRequest |-> TRUE, uid |-> "u1", kind |-> "Pod", podDecodes |-> TRUE,
    pod |-> [namespace |-> Ns1, name |-> n, annotations |-> a, volumes |-> v,
             deleting |-> FALSE]] :
     n \in {WebZero, LongPodName},
     a \in {NilMap, Anno2(SizeKey(VolName(1)), <<"5","G","i">>, StorageClassKey(VolName(1)), <<" ">>)},
     v \in VolumeInputs}

ReceiveRetry ==
  /\ stage = "idle"
  /\ review' \in RetryReviews
  /\ resp' = NoResponse
  /\ doc' = NoDoc
  /\ stage' = "received"
  /\ UNCHANGED <<handler, earlier, calc, ctlVars>>

NextRetry == ReceiveRetry \/ Serve \/ Remember \/ Finish

SpecRetry == Init /\ [][NextRetry]_vars

\* the controller alone, over the pods the cluster holds
InitCtl ==
  /\ handler = NewHandler([size |-> << >>, sc |-> << >>, access |-> << >>])
  /\ review = NoReview /\ resp = NoResponse /\ stage = "idle" /\ doc = NoDoc
  /\ earlier = NoEarlier /\ calc = NoCalc
  /\ variant \in Variants
  /\ config \in Configs(variant)
  /\ \E p1 \in {Absent} \cup {Present(CtlPod(K1, a)) : a \in CtlAnnotations},
        p2 \in {Absent, Present(CtlPod(K2, Anno1(ClaimAnno, ClaimX)))} :
       pods = [k \in PodKeys |-> IF k = K1 THEN p1 ELSE p2]
  /\ pvcs = EmptyKV
  /\ pass = NoPass
  /\ faultsLeft = MaxFaults

Reconcile ==
  \/ \E k \in PodKeys : StartPass(k)
  \/ GetPVC
  \/ Create
  \/ GetPVCForDelete
  \/ Delete

Cluster ==
  \/ \E k \in PodKeys : MarkDeleting(k)
  \/ \E key \in DOMAIN pvcs : BindPVC(key)
  \/ \E key \in DOMAIN pvcs : LosePVC(key)
  \/ \E key \in ClaimedKeys : OtherCreate(key)

NextCtl == Reconcile \/ Cluster

SpecCtl == InitCtl /\ [][NextCtl]_vars

\* the reconciler the manager runs, on one pod that names a claim, until the
\* claim is bound
InitBind ==
  /\ handler = NewHandler([size |-> << >>, sc |-> << >>, access |-> << >>])
  /\ review = NoReview /\ resp = NoResponse /\ stage = "idle" /\ doc = NoDoc
  /\ earlier = NoEarlier /\ calc = NoCalc
  /\ variant = "PersistentVolumeClaimReconciler"
  /\ config = NoConfig
  /\ \E a \in {x \in CtlAnnotations : MapGet(x, ClaimAnno) # << >>} :
       pods = [k \in PodKeys |-> IF k = K1 THEN Present(CtlPod(K1, a)) ELSE Absent]
  /\ pvcs = EmptyKV
  /\ pass = NoPass
  /\ faultsLeft = MaxFaults

NextBind ==
  \/ \E k \in PodKeys : StartPass(k)
  \/ GetPVC
  \/ Create
  \/ \E k \in PodKeys : MarkDeleting(k)
  \/ \E key \in DOMAIN pvcs : BindPVC(key)
  \/ \E key \in DOMAIN pvcs : LosePVC(key)
  \/ \E key \in ClaimedKeys : OtherCreate(key)

SpecBind == InitBind /\ [][NextBind]_vars

\* the work queue hands every key to Reconcile again and again (a requeue, a
\* retry after an error, a watch event), and a pass that has begun runs to its end
FairSpecBind ==
  /\ SpecBind
  /\ \A k \in PodKeys : SF_vars(StartPass(k))
  /\ WF_vars(GetPVC) /\ WF_vars(Create)

\* admission, then the controller: the pod a request carries is patched,
\* persisted and reconciled
E2EReviews ==
  {[decodeErr |-> FALSE, hasRequest |-> TRUE, uid |-> "u1", kind |-> "Pod", podDecodes |-> TRUE,
    pod |-> [namespace |-> Ns1, name |-> WebZero, annotations |-> a, volumes |-> v,
             deleting |-> FALSE]] :
     a \in {NilMap, EmptyMap, Anno1(ClaimAnno, ClaimX)},
     v \in VolumeLists(1) \cup VolumeLists(2)}

ReceiveE2E ==
  /\ stage = "idle"
  /\ review' \in E2EReviews
  /\ resp' = NoResponse
  /\ doc' = NoDoc
  /\ stage' = "received"
  /\ UNCHANGED <<handler, earlier, calc, ctlVars>>

\* the API server stores the patched pod
Persist ==
  /\ stage = "applied" /\ doc.ok
  /\ LET k == <<review.pod.namespace, review.pod.name>>
     IN  /\ k \in PodKeys /\ ~pods[k].exists
         /\ pods' = [pods EXCEPT ![k] = Present(PatchedPod(review.pod, doc))]
  /\ stage' = "persisted"
  /\ review' = NoReview
  /\ resp' = NoResponse
  /\ doc' = NoDoc
  /\ UNCHANGED <<handler, earlier, calc, variant, config, pvcs, pass, faultsLeft>>

InitE2E ==
  /\ AdmInit
  /\ variant \in Variants
  /\ config \in Configs(variant)
  /\ pods = [k \in PodKeys |-> Absent]
  /\ pvcs = EmptyKV
  /\ pass = NoPass
  /\ faultsLeft = 0

NextE2E ==
  \/ ReceiveE2E
  \/ Serve
  \/ Apply
  \/ Persist
  \/ Reconcile
  \/ \E k \in PodKeys : MarkDeleting(k)
  \/ \E key \in DOMAIN pvcs : BindPVC(key)

SpecE2E == InitE2E /\ [][NextE2E]_vars

\* the work queue hands every key to Reconcile again and again, and a pass that
\* has begun runs to its end
FairSpecE2E ==
  /\ SpecE2E
  /\ \A k \in PodKeys : SF_vars(StartPass(k))
  /\ WF_vars(GetPVC) /\ WF_vars(Create)
  /\ WF_vars(GetPVCForDelete) /\ WF_vars(Delete)

\* ============================================================ claims

Answered == stage \in {"answered", "applied"}

\* the request reached the handler with a Request that names a Pod which decodes
PodRequest ==
  ~review.decodeErr /\ review.hasRequest /\ review.kind = "Pod" /\ review.podDecodes

HasEmptyDir(pod) == \E i \in DOMAIN pod.volumes : pod.volumes[i].source = "emptyDir"

AllowedNoPatch ==
  /\ ~resp.panicked /\ resp.written = 1
  /\ resp.allowed /\ resp.patch = NoPatch /\ resp.patchType = ""

\* C2: a Pod request whose pod carries pvc-webhook/converted = "true" is answered
\* allowed=true with no patch and no patch type, whatever its volumes and other
\* annotations.
C2_Idempotence ==
  (Answered /\ PodRequest /\ MapGet(review.pod.annotations, convertedAnno) = StrTrue)
    => AllowedNoPatch

\* a marked pod that still has an emptyDir volume and another annotation was answered
C2_Witness ==
  /\ stage = "answered" /\ PodRequest
  /\ MapGet(review.pod.annotations, convertedAnno) = StrTrue
  /\ Cardinality(DOMAIN review.pod.annotations.kv) > 1
  /\ HasEmptyDir(review.pod)
  /\ resp.written = 1

\* C3: a request whose kind is not "Pod", and a Pod request whose pod has no
\* emptyDir volume, is answered allowed=true with no patch.
C3_NoOpOnIrrelevance ==
  (/\ Answered /\ ~review.decodeErr /\ review.hasRequest
   /\ \/ review.kind # "Pod"
      \/ review.podDecodes /\ ~HasEmptyDir(review.pod))
    => AllowedNoPatch

\* an unmarked pod with volumes, none of them an emptyDir, was answered
C3_Witness ==
  /\ stage = "answered" /\ PodRequest
  /\ ~alreadyConverted(review.pod)
  /\ review.pod.volumes # << >> /\ ~HasEmptyDir(review.pod)
  /\ resp.written = 1

\* C4: on every branch of ServeHTTP exactly one admission response is written
\* and its UID is the UID of the request.
C4_OneResponseSameUID ==
  Answered => (resp.written = 1 /\ resp.uid = review.uid)

\* C5: an undecodable review body and an undecodable pod object each yield a
\* written response with allowed=false and a result with a message and code 500,
\* at transport status 200; no path of ServeHTTP ends abnormally.
C5_MalformedInputDenied ==
  /\ Answered => ~resp.panicked
  /\ (Answered /\ (review.decodeErr \/ (review.hasRequest /\ review.kind = "Pod"
                                         /\ ~review.podDecodes)))
       => /\ resp.written = 1 /\ resp.status = 200
          /\ ~resp.allowed
          /\ resp.hasResult /\ resp.message # "" /\ resp.code = 500

\* the annotation keys ServeHTTP records for a pod
RecordedKeys(pod) ==
  UNION {{SizeKey(pod.volumes[i].name), StorageClassKey(pod.volumes[i].name),
          AccessModesKey(pod.volumes[i].name), ClaimNameKey(pod.volumes[i].name)} :
           i \in {j \in DOMAIN pod.volumes : pod.volumes[j].source = "emptyDir"}}

\* C7: every annotation add of a patch has a path that decodes to the three
\* segments metadata, annotations, <key>, so that the applied patch leaves each
\* recorded key and pvc-webhook/converted = "true" inside metadata.annotations.
C7_AnnotationPaths ==
  /\ Answered =>
       \A i \in DOMAIN resp.patch :
         (resp.patch[i].op = "add" /\ resp.patch[i].path # <<"/","m","e","t","a","d","a","t","a","/","a","n","n","o","t","a","t","i","o","n","s">>)
           => LET segs == DecodePointer(resp.patch[i].path)
              IN  /\ Len(segs) = 3
                  /\ segs[1] = SegMetadata /\ segs[2] = SegAnnotations
                  /\ segs[3] \in RecordedKeys(review.pod) \cup {convertedAnno}
  /\ (stage = "applied" /\ resp.patch # NoPatch) =>
       /\ doc.ok
       /\ MapGet(doc.annotations, convertedAnno) = StrTrue
       /\ RecordedKeys(review.pod) \subseteq DOMAIN doc.annotations.kv

\* a name the cluster accepts: ^[a-z0-9]([a-z0-9-]*[a-z0-9])?$ and at most 63 long
ValidName(s) ==
  /\ s # << >> /\ Len(s) <= 63
  /\ \A i \in DOMAIN s : s[i] \in NameChars
  /\ s[1] # "-" /\ s[Len(s)] # "-"

\* C6: the claim name the engine derives is non-empty, at most 63 characters of
\* [a-z0-9-], and neither starts nor ends with a hyphen, also when the cut at 63
\* lands right after a hyphen.
C6_NameValidity ==
  Answered =>
    \A i \in DOMAIN resp.patch :
      resp.patch[i].op = "replace" => ValidName(resp.patch[i].value.claimName)

\* ------------------------------------------------------------ reconciler claims

PassDone == pass.pc = "done"

Creates == {i \in DOMAIN pass.writes : pass.writes[i].verb = "create"}

Deletes == {i \in DOMAIN pass.writes : pass.writes[i].verb = "delete"}

PassAnnotations == pods[pass.key].obj.annotations

\* the size a reconciler asks for: the storage-size annotation, else its
\* default; 2Gi where it falls back on an unparseable one
DefaultSizeOf(v, r) ==
  IF v \in {"PVCReconciler", "PVCReconcilerRoot"} THEN r.DefaultSize ELSE <<"2","G","i">>

RequestedSize ==
  LET a == MapGet(PassAnnotations, StorageSizeAnno)
  IN  IF a = << >> THEN DefaultSizeOf(variant, config) ELSE a

ResolvedSize == IF ParseQuantityOK(RequestedSize) THEN RequestedSize ELSE <<"2","G","i">>

\* the storage class a reconciler asks for: the storage-class annotation, else
\* its default, else none
ResolvedClass ==
  LET a == MapGet(PassAnnotations, StorageClassAnno)
      d == CASE variant \in {"PVCReconciler", "PVCReconcilerRoot"} -> config.DefaultClass
             [] variant = "PodReconciler" -> <<"r","o","b","i","n","-","r","e","p","l","-","3">>
             [] OTHER -> << >>
      c == IF a = << >> THEN d ELSE a
  IN  IF c = << >> /\ variant \notin {"PVCReconciler", "PVCReconcilerRoot"}
      THEN NoClass ELSE Class(c)

\* the pass read a pod that is not being deleted and carries a claim, no PVC of
\* that name existed when it began or was seen by it, and its reads succeeded
PendingCreate ==
  /\ PassDone /\ pass.found /\ ~pass.deleting /\ pass.claim # << >>
  /\ pass.absentAtStart /\ pass.pvcSeen # "present"
  /\ ~pass.getFailed

OneCreateAsResolved ==
  /\ Len(pass.writes) = 1
  /\ pass.writes[1].verb = "create"
  /\ pass.writes[1].obj.namespace = pass.key[1]
  /\ pass.writes[1].obj.name = MapGet(PassAnnotations, ClaimAnno)
  /\ pass.writes[1].obj.size = ResolvedSize
  /\ pass.writes[1].obj.class = ResolvedClass
  /\ pass.writes[1].obj.access = <<ReadWriteOnce>>

\* a pass on a pod that is not being deleted found the PVC in phase Bound
FoundBound ==
  /\ PassDone /\ pass.found /\ ~pass.deleting
  /\ pass.pvcSeen = "present" /\ pass.fetched.phase = "Bound"

NoWriteNoRequeueNoError == pass.writes = << >> /\ pass.res = Result(0, "")

\* C8 as stated: for a pod that is not being deleted, carries a claim annotation
\* and has no PVC of that name, one pass issues exactly one PVC create for (pod
\* namespace, claim name) with the resolved size, class and access mode; a pass
\* that finds the PVC Bound issues no write and returns no requeue and no error.
C8_Convergence_AsStated ==
  /\ PendingCreate => OneCreateAsResolved
  /\ FoundBound => NoWriteNoRequeueNoError

\* C8, amended: the same, for a pod whose storage size (the annotation, else the
\* reconciler's default) parses as a quantity.
C8_Convergence ==
  /\ (PendingCreate /\ ParseQuantityOK(RequestedSize)) => OneCreateAsResolved
  /\ FoundBound => NoWriteNoRequeueNoError

\* a pass created the PVC of a pod with a size and a class annotation
C8_Witness ==
  /\ PendingCreate
  /\ MapGet(PassAnnotations, StorageSizeAnno) = <<"5","G","i">>
  /\ MapGet(PassAnnotations, StorageClassAnno) = <<"f","a","s","t">>
  /\ Len(pass.writes) = 1 /\ pass.answer = "Created"

\* C9: a pass for a pod being deleted that carries a claim annotation issues
\* exactly one delete, for the PVC of that name in the pod's namespace, when the
\* PVC exists, and no write at all when it does not; either way without requeue.
C9_DeletionCompensation ==
  (/\ variant \in {"PersistentVolumeClaimReconciler", "PVCReconciler"}
   /\ PassDone /\ pass.found /\ pass.deleting /\ pass.claim # << >> /\ ~pass.getFailed)
    => /\ pass.res.requeue = 0
       /\ ~pass.absentAtStart =>
            /\ Len(pass.writes) = 1
            /\ pass.writes[1].verb = "delete"
            /\ pass.writes[1].obj.namespace = pass.key[1]
            /\ pass.writes[1].obj.name = pass.claim
       /\ (pass.absentAtStart /\ <<pass.ns, pass.claim>> \notin DOMAIN pvcs
           /\ pass.pvcSeen # "present") => pass.writes = << >>

\* C10: a pass that saw the PVC absent and whose create is answered
\* AlreadyExists ends as success and returns no error.
C10_CreationRaceTolerated ==
  (PassDone /\ pass.pvcSeen = "absent" /\ pass.answer = "AlreadyExists")
    => pass.res.err = ""

\* C1: once a pod the engine converted is persisted, the controller eventually
\* issues a PVC create whose name is the claim name the engine put into the
\* replaced volume.
C1_EndToEndContract ==
  \A k \in PodKeys : \A i \in 1..MaxVolumes :
    (/\ stage = "persisted" /\ pods[k].exists
     /\ i \in DOMAIN pods[k].obj.volumes
     /\ pods[k].obj.volumes[i].source = "persistentVolumeClaim")
    ~> (\E w \in Creates :
          /\ i \in DOMAIN pods[k].obj.volumes
          /\ pass.writes[w].obj.namespace = k[1]
          /\ pass.writes[w].obj.name = pods[k].obj.volumes[i].claimName)


\* C11: a pass for a pod with a claim annotation, no PVC of that name and a
\* storage-size annotation that does not parse as a quantity creates no PVC and
\* returns no error and no requeue.
C11_UnparseableSizeSkip ==
  (/\ PendingCreate
   /\ MapGet(PassAnnotations, StorageSizeAnno) # << >>
   /\ ~ParseQuantityOK(MapGet(PassAnnotations, StorageSizeAnno)))
    => /\ pass.writes = << >>
       /\ pass.res = Result(0, "")

\* the pass of PersistentVolumeClaimReconciler found the claimed PVC present
FoundPresent ==
  /\ variant = "PersistentVolumeClaimReconciler"
  /\ PassDone /\ pass.pvcSeen = "present"

\* C12: a pass that finds the claimed PVC present issues no write and returns no
\* error, with no requeue when the phase is Bound, requeue after 5 seconds when
\* it is Pending, and requeue after 10 seconds for every other phase, Lost and
\* the empty phase included.
C12_PhaseInspection ==
  FoundPresent =>
    /\ pass.writes = << >>
    /\ pass.res.err = ""
    /\ pass.fetched.phase = "Bound" => pass.res.requeue = 0
    /\ pass.fetched.phase = "Pending" => pass.res.requeue = 5
    /\ pass.fetched.phase \notin {"Bound", "Pending"} => pass.res.requeue = 10

\* a pass found the PVC with no phase set and asked to come back in 10 seconds
C12_Witness ==
  /\ FoundPresent
  /\ pass.fetched.phase = ""
  /\ pass.res = Result(10, "")

\* a cluster call of the pass failed with a transient error
CallFailed == pass.getFailed \/ pass.answer = "Failed"

\* C13: whenever a get of the pod, a get of the PVC, a create or a delete fails
\* (other than not-found), the pass ends there, with no further cluster call and
\* no retry, and returns the error to its caller.
C13_TransientErrorsPropagated ==
  CallFailed =>
    /\ PassDone
    /\ pass.res.err # ""

\* the positions of the emptyDir volumes of a pod, in increasing order
EmptyDirIndexes(pod) ==
  SelectSeq([i \in 1..Len(pod.volumes) |-> i], LAMBDA i : pod.volumes[i].source = "emptyDir")

MarkerOp == addOp(pathEscape(<<"/","m","e","t","a","d","a","t","a","/","a","n","n","o","t","a","t","i","o","n","s","/">> \o convertedAnno), StrTrue)

\* C14: in every patch ServeHTTP emits the replace operations come first, one per
\* emptyDir volume in increasing volume index; every annotation operation comes
\* after them; for a pod without annotation map the add of an empty map at
\* /metadata/annotations comes before every add of an annotation key; the
\* converted marker is the last operation.
C14_PatchOrdering ==
  (Answered /\ resp.patch # NoPatch) =>
    LET idx == EmptyDirIndexes(review.pod)
        n   == Len(idx)
        p   == resp.patch
    IN  /\ n >= 1 /\ Len(p) > n
        /\ \A j \in 1..n :
             /\ p[j].op = "replace"
             /\ p[j].path = <<"/","s","p","e","c","/","v","o","l","u","m","e","s","/">> \o Itoa(idx[j] - 1)
             /\ p[j].value.name = review.pod.volumes[idx[j]].name
        /\ \A j \in (n + 1)..Len(p) : p[j].op = "add"
        /\ review.pod.annotations.isNil =>
             /\ p[n + 1].path = <<"/","m","e","t","a","d","a","t","a","/","a","n","n","o","t","a","t","i","o","n","s">>
             /\ p[n + 1].value = EmptyKV
        /\ \A j \in (n + 2)..Len(p) : p[j].path # <<"/","m","e","t","a","d","a","t","a","/","a","n","n","o","t","a","t","i","o","n","s">>
        /\ p[Len(p)] = MarkerOp
        /\ \A j \in 1..(Len(p) - 1) : p[j].path # MarkerOp.path

\* a pod with no annotation map and two emptyDir volumes was answered with a patch
C14_Witness ==
  /\ stage = "answered" /\ resp.patch # NoPatch
  /\ review.pod.annotations.isNil
  /\ Len(EmptyDirIndexes(review.pod)) = 2

\* ------------------------------------------------------------ pure-function claims

NonBlank(s) == \E i \in DOMAIN s : s[i] \notin WhiteSpace

\* the first candidate, left to right, that is not blank; the empty string when
\* there is none
FirstNonBlank(vals) ==
  LET good == {i \in DOMAIN vals : NonBlank(vals[i])}
  IN  IF good = {} THEN << >>
      ELSE vals[CHOOSE i \in good : \A j \in good : i <= j]

\* the override of a key in the pod of a convertVolume call
OverrideOf(key) == MapGet(calc.args.pod.annotations, key)

SamePodAgain ==
  /\ earlier.set /\ stage = "answered"
  /\ review.pod.namespace = earlier.ns
  /\ review.pod.name = earlier.pod

\* C16: the claim name the engine derives depends on namespace, pod name and
\* volume name only: an admission with the same three values as an earlier one,
\* whatever was admitted in between, puts the same name into the replaced volume
\* and records the same name under <volKey>.claimName.
C16_NamingDeterminism ==
  /\ earlier.set => earlier.inVolume = earlier.inAnno
  /\ SamePodAgain =>
       \A i \in DOMAIN resp.patch :
         /\ (resp.patch[i].op = "replace" /\ resp.patch[i].value.name = earlier.vol)
              => resp.patch[i].value.claimName = earlier.inVolume
         /\ (/\ resp.patch[i].op = "add"
             /\ resp.patch[i].path =
                  pathEscape(<<"/","m","e","t","a","d","a","t","a","/","a","n","n","o","t","a","t","i","o","n","s","/">> \o ClaimNameKey(earlier.vol)))
              => resp.patch[i].value = earlier.inAnno

\* the remembered volume was converted again, in a pod with another number of
\* volumes and other annotations
C16_Witness ==
  /\ SamePodAgain
  /\ Len(review.pod.volumes) # earlier.count
  /\ ~review.pod.annotations.isNil
  /\ \E i \in DOMAIN resp.patch :
       resp.patch[i].op = "replace" /\ resp.patch[i].value.name = earlier.vol

\* C17: for every annotation key over an alphabet with "/" and "~", escaping it
\* ("~" to "~0", then "/" to "~1") and un-escaping the result ("~1" to "/", then
\* "~0" to "~") gives back the key, and the escaped key holds no "/": for
\* escapeJSONPointer on its result, for pathEscape on the one reference token
\* that follows the "/" it puts in front.
C17_PointerRoundTrip ==
  /\ (calc.fn = "escapeJSONPointer" /\ calc.done) =>
       /\ Unescape(calc.out) = calc.args
       /\ "/" \notin Range(calc.out)
  /\ (calc.fn = "pathEscape" /\ calc.done) =>
       /\ Head(calc.out) = "/"
       /\ Unescape(Tail(calc.out)) = calc.args
       /\ "/" \notin Range(Tail(calc.out))
       /\ DecodePointer(calc.out) = <<calc.args>>

\* the key ~1/ was escaped to ~01~1
C17_Witness ==
  /\ calc.fn = "escapeJSONPointer" /\ calc.done
  /\ calc.args = <<"~", "1", "/">>
  /\ calc.out = <<"~", "0", "1", "~", "1">>

\* every write of the pass is a create or a delete of a PVC in the namespace of
\* the pod being reconciled
WritesArePVCsOfPod ==
  \A i \in DOMAIN pass.writes :
    /\ pass.writes[i].verb \in {"create", "delete"}
    /\ pass.writes[i].obj.namespace = pass.key[1]

\* a step of a pass leaves every pod as it was, annotations included
PodsReadOnly == [][pass' # pass => pods' = pods]_vars

\* the events of the pass: at most the one about the pod being reconciled, in
\* its namespace, after a create that succeeded
EventsAreAboutPod ==
  /\ Len(pass.events) <= 1
  /\ \A i \in DOMAIN pass.events :
       /\ pass.events[i].about = pass.key
       /\ pass.events[i].namespace = pass.key[1]
       /\ pass.events[i].reason = "PVCProvisioned"
       /\ pass.answer = "Created"

\* C18 as stated: on every path of a pass the controller writes no pod and
\* changes no pod annotation; the only objects it writes are PVCs in the
\* namespace of the pod being reconciled.
C18_OwnershipOfWrites_AsStated ==
  /\ PodsReadOnly
  /\ [](WritesArePVCsOfPod /\ pass.events = << >>)

\* C18, amended: the same, apart from the PVCProvisioned event that
\* PersistentVolumeClaimReconciler records about the pod, in the pod's
\* namespace, after a create that succeeded.
C18_OwnershipOfWrites ==
  /\ PodsReadOnly
  /\ [](WritesArePVCsOfPod /\ EventsAreAboutPod)

\* a pass created the PVC of its pod and recorded the event
C18_Witness ==
  /\ PassDone /\ pass.answer = "Created"
  /\ Len(pass.writes) = 1 /\ pass.writes[1].obj.namespace = pass.key[1]
  /\ pass.events # << >>

\* C19: every PVC a pass creates carries an owner reference to the pod being
\* reconciled and is created in that pod's namespace under the name the pod's
\* claim annotation gives.
C19_CreatedPVCsOwned ==
  \A i \in Creates :
    /\ pass.writes[i].obj.hasOwner
    /\ pass.writes[i].obj.owner = pass.key
    /\ pass.writes[i].obj.namespace = pass.key[1]
    /\ pass.writes[i].obj.name = MapGet(PassAnnotations, ClaimAnno)

\* ------------------------------------------------------------ binding

\* the PVC the pod K1 names
Key1 == <<Ns1, ClaimX>>

Bound1 == Key1 \in DOMAIN pvcs /\ pvcs[Key1].phase = "Bound"

\* a pass for K1 found the PVC Bound: no requeue, no error
QuietPass ==
  /\ PassDone /\ pass.key = K1
  /\ pass.pvcSeen = "present" /\ pass.fetched.phase = "Bound"
  /\ pass.res = Result(0, "")

\* if the PVC becomes Bound and stays Bound, a pass that returns no requeue and
\* no error is reached, and from it on no pass issues a write
SettlesOnceBound == <>[]Bound1 => <>(QuietPass /\ [](pass.writes = << >>))

\* C20 as stated: once a pass has created the PVC, every pass that ends with the
\* PVC present and not Bound returns a non-zero requeue delay; and if the PVC
\* becomes Bound and stays Bound, a pass that returns no requeue and no error is
\* reached, after which no pass issues a write.
C20_RequeueUntilBound_AsStated ==
  /\ [][(/\ pass' # pass /\ pass'.pc = "done" /\ pass'.key = K1
         /\ Key1 \in DOMAIN pvcs' /\ pvcs'[Key1].phase # "Bound"
         /\ pvcs'[Key1].hasOwner)
          => pass'.res.requeue > 0]_vars
  /\ SettlesOnceBound

\* C20, amended: every pass that ends with the PVC present and not Bound returns
\* a non-zero requeue delay or an error, so that the key comes back either way;
\* and if the PVC becomes Bound and stays Bound, a pass that returns no requeue
\* and no error is reached, after which no pass issues a write.
C20_RequeueUntilBound ==
  /\ [][(/\ pass' # pass /\ pass'.pc = "done" /\ pass'.key = K1
         /\ Key1 \in DOMAIN pvcs' /\ pvcs'[Key1].phase # "Bound")
          => (pass'.res.requeue > 0 \/ pass'.res.err # "")]_vars
  /\ SettlesOnceBound

\* the PVC a pass created is Bound and a later pass found it so
C20_Witness ==
  /\ QuietPass
  /\ Bound1 /\ pvcs[Key1].hasOwner

\* ------------------------------------------------------------ further claims

\* C21: the PVC a pass creates has no storage class name set when the pod's
\* storage-class annotation is absent or empty, and has the annotation's value as
\* its storage class name when the annotation is non-empty.
C21_StorageClassPassThrough ==
  \A i \in Creates :
    LET sc == MapGet(PassAnnotations, StorageClassAnno)
    IN  /\ sc = << >> => pass.writes[i].obj.class = NoClass
        /\ sc # << >> => pass.writes[i].obj.class = Class(sc)

\* the positions of the replace operations of a patch
Replaces(p) == {j \in DOMAIN p : p[j].op = "replace"}

\* the 1-based volume position an operation addresses, 0 when it addresses none
VolumeAddressed(o) ==
  LET segs == DecodePointer(o.path)
  IN  IF Len(segs) >= 3 /\ segs[1] = SegSpec /\ segs[2] = SegVolumes /\ IsIndex(segs[3])
      THEN Atoi(segs[3]) + 1
      ELSE 0

\* C22: the replace operations of a patch are as many as the emptyDir volumes of
\* the pod; each targets /spec/volumes/<i> for an emptyDir volume i of the
\* original list, keeps that volume's name and gives it a persistent-volume-claim
\* source; no operation addresses another volume, and the applied patch leaves
\* every other volume as it was.
C22_OnlyEphemeralTouched ==
  /\ (Answered /\ resp.patch # NoPatch) =>
       LET p   == resp.patch
           vol == review.pod.volumes
           ed  == {i \in DOMAIN vol : vol[i].source = "emptyDir"}
       IN  /\ Cardinality(Replaces(p)) = Cardinality(ed)
           /\ {VolumeAddressed(p[j]) : j \in Replaces(p)} = ed
           /\ \A j \in Replaces(p) :
                LET i == VolumeAddressed(p[j])
                IN  /\ p[j].path = <<"/","s","p","e","c","/","v","o","l","u","m","e","s","/">> \o Itoa(i - 1)
                    /\ p[j].value.name = vol[i].name
                    /\ p[j].value.source = "persistentVolumeClaim"
           /\ \A j \in DOMAIN p : VolumeAddressed(p[j]) \in ed \cup {0}
  /\ stage = "applied" =>
       /\ Len(doc.volumes) = Len(review.pod.volumes)
       /\ \A i \in DOMAIN review.pod.volumes :
            /\ doc.volumes[i].name = review.pod.volumes[i].name
            /\ review.pod.volumes[i].source # "emptyDir"
                 => doc.volumes[i] = review.pod.volumes[i]

\* a patch for a pod with an emptyDir volume and a volume of another kind was applied
C22_Witness ==
  /\ stage = "applied" /\ resp.patch # NoPatch
  /\ \E i, j \in DOMAIN review.pod.volumes :
       /\ review.pod.volumes[i].source = "emptyDir"
       /\ review.pod.volumes[j].source # "emptyDir"
       /\ doc.volumes[i].source = "persistentVolumeClaim"

\* the pass read no pod (there is none of that key), or a pod whose claim
\* annotation is absent or empty
NoClaimPass ==
  /\ pass.pc # "idle"
  /\ \/ ~pass.found /\ ~pass.getFailed
     \/ pass.found /\ pass.claim = << >>

\* C23: a pass for a pod that does not exist, or whose claim annotation is absent
\* or empty, issues no PVC get, create or delete and returns no requeue and no
\* error, with or without a deletion timestamp on the pod.
C23_NoClaimNoOp ==
  NoClaimPass =>
    /\ PassDone
    /\ pass.pvcSeen = "unknown"
    /\ pass.writes = << >>
    /\ pass.res = Result(0, "")

\* a pass ended at once for a pod being deleted that names no claim
C23_Witness ==
  /\ NoClaimPass /\ PassDone
  /\ pass.found /\ pass.deleting
  /\ pods[pass.key].obj.annotations = Anno1(ClaimAnno, << >>)

\* C24: for a pod with no annotations and n >= 1 emptyDir volumes, the patch of
\* mutatePods holds exactly one add of the whole /metadata/annotations map, and
\* the patch applied in order leaves the key pvc-webhook/<volume name> with its
\* claim name in the pod's annotations for every converted volume.
C24_LegacyAnnotations ==
  (/\ calc.fn = "mutatePods" /\ calc.done
   /\ DOMAIN calc.args.annotations.kv = {}
   /\ HasEmptyDir(calc.args))
    => LET pod == calc.args
           p   == calc.out.patch
       IN  /\ Cardinality({j \in DOMAIN p : p[j].path = <<"/","m","e","t","a","d","a","t","a","/","a","n","n","o","t","a","t","i","o","n","s">>}) = 1
           /\ calc.out.doc.ok
           /\ \A i \in DOMAIN pod.volumes :
                pod.volumes[i].source = "emptyDir"
                  => MapGet(calc.out.doc.annotations, legacyAnnoKey(pod.volumes[i]))
                       = legacyPVCName(pod, pod.volumes[i])

\* C25: whenever a pass for pod P deletes a PVC, that PVC's owner reference
\* points to P, and no pod of the same namespace that is not being deleted names
\* that PVC in its claim annotation.
C25_DeleteOnlyOwnPVC ==
  [][(pass.pc = "delete" /\ pass'.answer = "Deleted")
       => LET key == <<pass.fetched.namespace, pass.fetched.name>>
              pvc == pvcs[key]
          IN  /\ pvc.hasOwner /\ pvc.owner = pass.key
              /\ \A k \in PodKeys \ {pass.key} :
                   (/\ pods[k].exists
                    /\ pods[k].obj.namespace = pvc.namespace
                    /\ ~pods[k].obj.deleting)
                     => MapGet(pods[k].obj.annotations, ClaimAnno) # pvc.name]_vars

\* "pvc-<ns>-<pod>-<vol>" as ServeHTTP formats it before sanitize
Composed(ns, pair) == <<"p","v","c","-">> \o ns \o <<"-">> \o pair[1] \o <<"-">> \o pair[2]

\* made of [a-z0-9-] with no leading, trailing or doubled hyphen
AlreadyClean(s) ==
  /\ s # << >>
  /\ \A i \in DOMAIN s : s[i] \in Range(Lowers) \cup Range(Digits) \cup {"-"}
  /\ s[1] # "-" /\ s[Len(s)] # "-"
  /\ \A i \in 1..(Len(s) - 1) : ~(s[i] = "-" /\ s[i + 1] = "-")

\* C26: within one namespace, two distinct (pod name, volume name) pairs whose
\* composed name is at most 63 characters and already clean derive two distinct
\* claim names.
C26_NoCollisionWithoutTruncation ==
  (/\ calc.fn = "claimName" /\ calc.done
   /\ calc.args.a # calc.args.b
   /\ \A pair \in {calc.args.a, calc.args.b} :
        /\ Len(Composed(calc.args.ns, pair)) <= 63
        /\ AlreadyClean(Composed(calc.args.ns, pair)))
    => calc.out[1] # calc.out[2]

\* C27: two invocations of ServeHTTP on identical requests with identical
\* defaults answer the identical sequence of patch operations, the same
\* operations in the same order.
C27_AdmissionDeterministic ==
  (calc.fn = "ServeHTTP" /\ calc.done) => calc.out[1].patch = calc.out[2].patch
====
